---------------------------- MODULE Spec2Model ----------------------------
(***************************************************************************)
(* Model of app.py, the pricebook search page: the credential check, the   *)
(* loader (load_and_combine_data), the row filter (search_dataframe), the  *)
(* summarization step (get_gemini_answer) and the page's button handler.   *)
(*                                                                         *)
(* Text is a sequence of one-character strings.  A cell value is a record  *)
(* [t, s, n]: t = "str" (text s), "int" (integer n), "float" (the float    *)
(* n.0) or "nan" (pandas' missing marker).  A DataFrame is a record        *)
(* [cols, rows]: the column names in order and the rows in order, each row *)
(* a function from the column names to cell values.                        *)
(***************************************************************************)
EXTENDS Integers, Sequences, FiniteSets, TLC

VARIABLES
    secrets,                \* st.secrets: the set of secret names that are set
    CSV_FILES,              \* the configured source list (paths, in order)
    fs,                     \* the directory: path -> file on disk
    pc,                     \* where the script run stands
    load_reports,           \* st.warning / st.error calls made by the loader
    combined_pricebook_df,  \* the table held by the page
    user_query,             \* the text box's content at the last click
    search_results,         \* the Match Set of the last click
    prompt,                 \* what the last click handed to the model
    gemini_answer,          \* what the last click wrote as the answer
    shown,                  \* messages and widgets rendered by the current run
    api_calls,              \* generate_content calls made by the last click
    searched,               \* whether the last click called search_dataframe
    last_outcome,           \* how the last click's generate_content call ended
    ever_loaded,            \* history: the loader ran in this session
    ever_searched,          \* history: search_dataframe ran in this session
    ever_called_api         \* history: generate_content ran in this session

vars == <<secrets, CSV_FILES, fs, pc, load_reports, combined_pricebook_df,
          user_query, search_results, prompt, gemini_answer, shown, api_calls,
          searched, last_outcome, ever_loaded, ever_searched, ever_called_api>>

---------------------------------------------------------------------------
(* Bounds of the model.                                                    *)

\* longest source list explored
MaxFiles == 3
\* largest Match Set handed to the summarization step on its own
MaxRows == 15

---------------------------------------------------------------------------
(* Text.                                                                   *)

Range(f) == {f[i] : i \in DOMAIN f}

\* str.lower() on one character; "A" is the alphabet's upper-case letter
LowerChar(c) == IF c = "A" THEN "a" ELSE c

\* str.lower()
Lower(s) == [i \in DOMAIN s |-> LowerChar(s[i])]

\* str.strip() == "": every character is white space
IsBlank(s) == \A i \in DOMAIN s : s[i] = " "

\* plain containment: sub occurs in s as a contiguous run of characters
LiteralContains(s, sub) ==
    \E j \in 0..(Len(s) - Len(sub)) :
        \A i \in 1..Len(sub) : s[j + i] = sub[i]

Digits == <<"0", "1", "2", "3", "4", "5", "6", "7", "8", "9">>

DigitVal(c) == CHOOSE d \in 0..9 : Digits[d + 1] = c

IsDigit(c) == \E d \in 0..9 : Digits[d + 1] = c

RECURSIVE ParseInt(_)
\* int("10") = 10, int("01") = 1
ParseInt(s) ==
    IF s = <<>> THEN 0
    ELSE 10 * ParseInt(SubSeq(s, 1, Len(s) - 1)) + DigitVal(s[Len(s)])

RECURSIVE IntToStr(_)
\* str(10) = "10"
IntToStr(n) ==
    IF n < 10 THEN <<Digits[n + 1]>>
    ELSE IntToStr(n \div 10) \o <<Digits[(n % 10) + 1]>>

---------------------------------------------------------------------------
(* Regular expressions as Python's re reads them, for the metacharacters   *)
(* "." and "*"; every other character of the alphabet is a literal.        *)

\* re.compile raises re.error: "nothing to repeat" / "multiple repeat"
RegexValid(p) ==
    \A i \in DOMAIN p : p[i] = "*" => (i > 1 /\ p[i - 1] # "*")

\* one pattern atom against one character
AtomMatches(a, c) == a = "." \/ a = c

RECURSIVE StarReach(_, _, _)
\* the positions reachable from j by consuming characters that match atom a
StarReach(a, s, j) ==
    IF j <= Len(s) /\ AtomMatches(a, s[j])
    THEN {j} \cup StarReach(a, s, j + 1)
    ELSE {j}

RECURSIVE MatchEnds(_, _, _, _)
\* the positions at which a match of p[i..] that starts at s[j] can end
MatchEnds(p, i, s, j) ==
    IF i > Len(p) THEN {j}
    ELSE IF i + 1 <= Len(p) /\ p[i + 1] = "*"
    THEN UNION {MatchEnds(p, i + 2, s, k) : k \in StarReach(p[i], s, j)}
    ELSE IF j <= Len(s) /\ AtomMatches(p[i], s[j])
    THEN MatchEnds(p, i + 1, s, j + 1)
    ELSE {}

\* re.search(p, s) is not None, for a valid p
RegexSearch(p, s) == \E j \in 1..(Len(s) + 1) : MatchEnds(p, 1, s, j) # {}

---------------------------------------------------------------------------
(* Cell values.                                                            *)

StrVal(s) == [t |-> "str", s |-> s, n |-> 0]
IntVal(n) == [t |-> "int", s |-> <<>>, n |-> n]
FloatVal(n) == [t |-> "float", s |-> <<>>, n |-> n]
NaN == [t |-> "nan", s |-> <<>>, n |-> 0]

\* str(value), as row.astype(str) and the markdown rendering produce it
AsStr(v) ==
    CASE v.t = "str" -> v.s
      [] v.t = "int" -> IntToStr(v.n)
      [] v.t = "float" -> IntToStr(v.n) \o <<".", "0">>
      [] OTHER -> <<"n", "a", "n">>

\* pd.DataFrame()
EmptyDF == [cols |-> <<>>, rows |-> <<>>]

\* DataFrame.empty: some axis has length 0
IsEmpty(df) == Len(df.cols) = 0 \/ Len(df.rows) = 0

---------------------------------------------------------------------------
(* Files on disk and pd.read_csv.  A file is [status, cols, rows]: status  *)
(* "missing" (open raises FileNotFoundError), "malformed" (the parser      *)
(* raises) or "ok"; rows hold the raw text of each field, aligned to cols, *)
(* and an empty field is <<>>.                                             *)

MissingFile == [status |-> "missing", cols |-> <<>>, rows |-> <<>>]
MalformedFile == [status |-> "malformed", cols |-> <<>>, rows |-> <<>>]

\* name,price / aA,1 / b,10
FileA == [status |-> "ok", cols |-> <<"name", "price">>,
          rows |-> << <<(<<"a", "A">>), (<<"1">>)>>,
                      <<(<<"b">>), (<<"1", "0">>)>> >>]
\* name / a.b
FileB == [status |-> "ok", cols |-> <<"name">>,
          rows |-> << <<(<<"a", ".", "b">>)>> >>]
\* name,price / b, / A a,01
FileC == [status |-> "ok", cols |-> <<"name", "price">>,
          rows |-> << <<(<<"b">>), (<<>>)>>,
                      <<(<<"A", " ", "a">>), (<<"0", "1">>)>> >>]
\* price,name / a,1
FileD == [status |-> "ok", cols |-> <<"price", "name">>,
          rows |-> << <<(<<"a">>), (<<"1">>)>> >>]

\* the files a path of the source list may hold
Catalogue == {MissingFile, MalformedFile, FileA, FileB, FileC, FileD}

\* the names the source list is drawn from
PathNames == {"Trellix Helix.csv", "Skyhigh.csv"}

IsNumericText(s) == s # <<>> /\ \A i \in DOMAIN s : IsDigit(s[i])

\* read_csv's type inference for one column, from its raw fields
InferDtype(cells) ==
    IF \E i \in DOMAIN cells : cells[i] # <<>> /\ ~IsNumericText(cells[i])
    THEN "object"
    ELSE IF \E i \in DOMAIN cells : cells[i] = <<>>
    THEN "float64"
    ELSE "int64"

\* one raw field as a cell of a column of the given dtype
ParseCell(raw, dtype) ==
    IF raw = <<>> THEN NaN
    ELSE CASE dtype = "object" -> StrVal(raw)
           [] dtype = "int64" -> IntVal(ParseInt(raw))
           [] OTHER -> FloatVal(ParseInt(raw))

ColIndex(cols, c) == CHOOSE k \in DOMAIN cols : cols[k] = c

\* pd.read_csv(file_path) on a file that parses
read_csv(file) ==
    LET dtype(c) ==
            InferDtype([r \in DOMAIN file.rows |->
                           file.rows[r][ColIndex(file.cols, c)]])
    IN  [cols |-> file.cols,
         rows |-> [r \in DOMAIN file.rows |->
                      [c \in Range(file.cols) |->
                          ParseCell(file.rows[r][ColIndex(file.cols, c)],
                                    dtype(c))]]]

---------------------------------------------------------------------------
(* pd.concat(all_data, ignore_index=True) and fillna('').                  *)

RECURSIVE AppendNew(_, _)
\* cols followed by the names of more that cols lacks, in more's order
AppendNew(cols, more) ==
    IF more = <<>> THEN cols
    ELSE AppendNew(IF Head(more) \in Range(cols) THEN cols
                   ELSE Append(cols, Head(more)),
                   Tail(more))

RECURSIVE UnionCols(_)
\* the outer join of the frames' columns, in order of first appearance
UnionCols(frames) ==
    IF frames = <<>> THEN <<>>
    ELSE AppendNew(UnionCols(SubSeq(frames, 1, Len(frames) - 1)),
                   frames[Len(frames)].cols)

\* the dtype a frame holds column c in
ColDtype(df, c) ==
    IF \E r \in DOMAIN df.rows : df.rows[r][c].t = "str" THEN "object"
    ELSE IF \A r \in DOMAIN df.rows : df.rows[r][c].t = "int" THEN "int64"
    ELSE "float64"

\* the common dtype of column c in the concatenation
ResultDtype(frames, c) ==
    LET having == {i \in DOMAIN frames : c \in Range(frames[i].cols)}
    IN  IF \E i \in having : ColDtype(frames[i], c) = "object" THEN "object"
        ELSE IF having = DOMAIN frames
                /\ \A i \in having : ColDtype(frames[i], c) = "int64"
        THEN "int64"
        ELSE "float64"

\* a value moved into a column of the given dtype
Cast(v, dtype) ==
    IF dtype = "float64" /\ v.t = "int" THEN FloatVal(v.n) ELSE v

\* a frame's rows over the joined columns; a column it lacks is missing
Reindex(df, frames) ==
    [r \in DOMAIN df.rows |->
        [c \in Range(UnionCols(frames)) |->
            IF c \in Range(df.cols)
            THEN Cast(df.rows[r][c], ResultDtype(frames, c))
            ELSE NaN]]

RECURSIVE ConcatRows(_, _)
\* the reindexed rows of the first k frames, in order
ConcatRows(frames, k) ==
    IF k = 0 THEN <<>>
    ELSE ConcatRows(frames, k - 1) \o Reindex(frames[k], frames)

\* pd.concat(all_data, ignore_index=True)
concat(frames) ==
    [cols |-> UnionCols(frames), rows |-> ConcatRows(frames, Len(frames))]

\* fillna('') left out: the missing marker stays
FillCellKeepsNaN(v) == v

\* fillna('') on one cell
FillCell(v) == IF v.t = "nan" THEN StrVal(<<>>) ELSE v

\* combined_df.fillna('')
fillna(df) ==
    [cols |-> df.cols,
     rows |-> [r \in DOMAIN df.rows |->
                  [c \in Range(df.cols) |-> FillCell(df.rows[r][c])]]]

---------------------------------------------------------------------------
(* load_and_combine_data.                                                  *)

Report(kind, what, path) == [kind |-> kind, what |-> what, path |-> path]

\* the missing file handled by the general handler: st.error, not st.warning
OnFileNotFoundAsError(acc, path) ==
    [acc EXCEPT !.reports = Append(@, Report("error", "load_error", path))]

\* except FileNotFoundError: st.warning(...); continue
OnFileNotFound(acc, path) ==
    [acc EXCEPT !.reports = Append(@, Report("warning", "file_not_found", path))]

\* except Exception as e: st.error(...); continue
OnLoadError(acc, path) ==
    [acc EXCEPT !.reports = Append(@, Report("error", "load_error", path))]

\* a frame equal to one already read is dropped
OnLoadedDedup(acc, path) ==
    IF \E i \in DOMAIN acc.all_data : acc.all_data[i] = read_csv(fs[path])
    THEN acc
    ELSE [acc EXCEPT !.all_data = Append(@, read_csv(fs[path]))]

\* df = pd.read_csv(file_path); all_data.append(df)
OnLoaded(acc, path) ==
    [acc EXCEPT !.all_data = Append(@, read_csv(fs[path]))]

\* one iteration of the loop over file_paths
LoadStep(acc, path) ==
    CASE fs[path].status = "missing" -> OnFileNotFound(acc, path)
      [] fs[path].status = "malformed" -> OnLoadError(acc, path)
      [] OTHER -> OnLoaded(acc, path)

RECURSIVE LoadLoop(_, _)
\* the loop over the first k paths, from all_data = []
LoadLoop(file_paths, k) ==
    IF k = 0 THEN [all_data |-> <<>>, reports |-> <<>>]
    ELSE LoadStep(LoadLoop(file_paths, k - 1), file_paths[k])

\* pd.concat(all_data, ignore_index=True).fillna('')
Combine(all_data) == fillna(concat(all_data))

\* the function's result and the reports it made
load_and_combine_data(file_paths) ==
    LET acc == LoadLoop(file_paths, Len(file_paths))
    IN  IF acc.all_data = <<>>
        THEN [df |-> EmptyDF,
              reports |-> Append(acc.reports, Report("error", "no_data", ""))]
        ELSE [df |-> Combine(acc.all_data), reports |-> acc.reports]

---------------------------------------------------------------------------
(* search_dataframe.                                                       *)

\* Series.str.contains(pat): pat is read as a regular expression
StrContains(s, pat) == RegexSearch(pat, s)

\* row.astype(str).str.lower().str.contains(query_lower).any()
RowMatches(df, row, query_lower) ==
    \E c \in Range(df.cols) : StrContains(Lower(AsStr(row[c])), query_lower)

\* the guard without strip()
QueryIsBlankNoStrip(query) == query = <<>>

\* if query.strip() == "": the short-circuit's guard
QueryIsBlank(query) == IsBlank(query)

\* the result, whether re.error was raised, and whether the table was scanned
search_dataframe(df, query) ==
    IF QueryIsBlank(query)
    THEN [df |-> EmptyDF, raised |-> FALSE, scanned |-> FALSE]
    ELSE LET query_lower == Lower(query)
         IN  IF df.rows # <<>> /\ ~RegexValid(query_lower)
             THEN [df |-> EmptyDF, raised |-> TRUE, scanned |-> TRUE]
             ELSE [df |-> [cols |-> df.cols,
                           rows |-> SelectSeq(df.rows,
                                      LAMBDA row : RowMatches(df, row, query_lower))],
                   raised |-> FALSE, scanned |-> TRUE]

---------------------------------------------------------------------------
(* get_gemini_answer.                                                      *)

max_rows_for_gemini == 10

\* DataFrame.head(n)
head(df, n) ==
    [cols |-> df.cols,
     rows |-> SubSeq(df.rows, 1, IF Len(df.rows) < n THEN Len(df.rows) ELSE n)]

\* DataFrame.to_markdown(index=False): a header and one line of text per row
to_markdown(df) ==
    [header |-> df.cols,
     lines |-> [r \in DOMAIN df.rows |->
                  [k \in DOMAIN df.cols |-> AsStr(df.rows[r][df.cols[k]])]]]

NoPrompt == [kind |-> "none", query |-> <<>>,
             table |-> [header |-> <<>>, lines |-> <<>>], more |-> <<>>]

\* the cap compared with >= instead of >
BuildPromptOffByOne(query, search_results_df) ==
    IF IsEmpty(search_results_df)
    THEN [kind |-> "no_data", query |-> query,
          table |-> [header |-> <<>>, lines |-> <<>>], more |-> <<>>]
    ELSE IF Len(search_results_df.rows) >= max_rows_for_gemini
    THEN [kind |-> "results", query |-> query,
          table |-> to_markdown(head(search_results_df, max_rows_for_gemini)),
          more |-> <<Len(search_results_df.rows) - max_rows_for_gemini>>]
    ELSE [kind |-> "results", query |-> query,
          table |-> to_markdown(search_results_df), more |-> <<>>]

\* the text handed to the model: the query, the rendered rows, and the
\* "... (and k more results not shown due to length)" line as <<k>>
BuildPrompt(query, search_results_df) ==
    IF IsEmpty(search_results_df)
    THEN [kind |-> "no_data", query |-> query,
          table |-> [header |-> <<>>, lines |-> <<>>], more |-> <<>>]
    ELSE IF Len(search_results_df.rows) > max_rows_for_gemini
    THEN [kind |-> "results", query |-> query,
          table |-> to_markdown(head(search_results_df, max_rows_for_gemini)),
          more |-> <<Len(search_results_df.rows) - max_rows_for_gemini>>]
    ELSE [kind |-> "results", query |-> query,
          table |-> to_markdown(search_results_df), more |-> <<>>]

Apology == "Sorry, I couldn't get an answer from Gemini at this moment."
ResponseText == "response.text"
NoAnswer == ""

\* how a generate_content call can end
Outcomes == {"ok", "error"}

\* no except clause: the exception leaves the function
OnGeminiErrorRaises(res) ==
    [res EXCEPT !.raised = TRUE]

\* except Exception as e: st.error(...); return the apology
OnGeminiError(res) ==
    [res EXCEPT !.answer = Apology, !.st_error = TRUE]

\* the prompt, the calls made, the returned text, whether st.error was
\* called and whether an exception left the function
get_gemini_answer(query, search_results_df, outcome) ==
    LET res == [prompt |-> BuildPrompt(query, search_results_df), calls |-> 1,
                answer |-> ResponseText, st_error |-> FALSE, raised |-> FALSE]
    IN  IF outcome = "ok" THEN res ELSE OnGeminiError(res)

---------------------------------------------------------------------------
(* The page.                                                               *)

\* st.stop() left out: the run goes on after the error message
CredentialStepNoStop ==
    IF "GEMINI_API_KEY" \in secrets
    THEN [pc |-> "load", shown |-> <<>>]
    ELSE [pc |-> "load", shown |-> <<"config_error">>]

\* try: genai.configure(api_key=st.secrets[...]) except KeyError: error, stop
CredentialStep ==
    IF "GEMINI_API_KEY" \in secrets
    THEN [pc |-> "load", shown |-> <<>>]
    ELSE [pc |-> "stopped", shown |-> <<"config_error">>]

\* the emptiness test left out
DataLoadedAlways(df) == TRUE

\* if not combined_pricebook_df.empty:
DataLoaded(df) == ~IsEmpty(df)

\* if user_query:
QueryGiven(query) == query # <<>>

\* the body of `if st.button("Search Pricebook"):` for one click
SearchButton(query, outcome) ==
    IF QueryGiven(query)
    THEN LET sr == search_dataframe(combined_pricebook_df, query)
             g == get_gemini_answer(query, sr.df, outcome)
         IN  IF sr.raised
             THEN [searched |-> TRUE, results |-> EmptyDF, prompt |-> NoPrompt,
                   answer |-> NoAnswer, calls |-> 0, crashed |-> TRUE,
                   shown |-> <<"exception">>]
             ELSE [searched |-> TRUE, results |-> sr.df, prompt |-> g.prompt,
                   answer |-> IF g.raised THEN NoAnswer ELSE g.answer,
                   calls |-> g.calls, crashed |-> g.raised,
                   shown |-> <<"results_header">>
                       \o (IF IsEmpty(sr.df) THEN <<"no_matches">>
                           ELSE <<"dataframe">>)
                       \o <<"answer_header">>
                       \o (IF g.st_error THEN <<"gemini_error">> ELSE <<>>)
                       \o (IF g.raised THEN <<"exception">> ELSE <<"answer">>)]
    ELSE [searched |-> FALSE, results |-> EmptyDF, prompt |-> NoPrompt,
          answer |-> NoAnswer, calls |-> 0, crashed |-> FALSE,
          shown |-> <<"enter_query_warning">>]

\* the queries a user types
Queries ==
    { <<>>, <<" ">>, <<" ", " ">>, <<"a">>, <<"A">>, <<"b">>, <<"z">>,
      <<"1">>, <<"0">>, <<"1", ".", "0">>, <<".">>, <<"*">>, <<"a", "*">>,
      <<"A", " ", "a">>, <<"b", "*", "1">> }

SeqsUpTo(S, n) == UNION {[1..k -> S] : k \in 0..n}

(* The source list is configuration: any list of up to MaxFiles names,     *)
(* repeats and the empty list included, over a directory in which each     *)
(* name is absent, unparsable or one of the catalogue's tables.            *)

Init ==
    /\ secrets \in {{}, {"GEMINI_API_KEY"}}
    /\ CSV_FILES \in SeqsUpTo(PathNames, MaxFiles)
    /\ fs \in [PathNames -> Catalogue]
    /\ pc = "start"
    /\ load_reports = <<>>
    /\ combined_pricebook_df = EmptyDF
    /\ user_query = <<>>
    /\ search_results = EmptyDF
    /\ prompt = NoPrompt
    /\ gemini_answer = NoAnswer
    /\ shown = <<>>
    /\ api_calls = 0
    /\ searched = FALSE
    /\ last_outcome = "none"
    /\ ever_loaded = FALSE
    /\ ever_searched = FALSE
    /\ ever_called_api = FALSE

\* lines 10-14: the credential is configured, or the run stops
Configure ==
    /\ pc = "start"
    /\ pc' = CredentialStep.pc
    /\ shown' = CredentialStep.shown
    /\ UNCHANGED <<secrets, CSV_FILES, fs, load_reports, combined_pricebook_df,
                   user_query, search_results, prompt, gemini_answer,
                   api_calls, searched, last_outcome, ever_loaded,
                   ever_searched, ever_called_api>>

\* lines 135-140 and 162-163: the table is loaded and the page is drawn
LoadData ==
    /\ pc = "load"
    /\ \E r \in {load_and_combine_data(CSV_FILES)} :
           /\ combined_pricebook_df' = r.df
           /\ load_reports' = r.reports
           /\ pc' = IF DataLoaded(r.df) THEN "ready" ELSE "no_data"
           /\ shown' = IF DataLoaded(r.df) THEN <<"success", "query_box">>
                       ELSE <<"could_not_load">>
    /\ ever_loaded' = TRUE
    /\ UNCHANGED <<secrets, CSV_FILES, fs, user_query, search_results, prompt,
                   gemini_answer, api_calls, searched, last_outcome,
                   ever_searched, ever_called_api>>

\* lines 142-161: the user types a query and clicks "Search Pricebook".
\* The click reruns the script; the credential and the cached table are as
\* before, so the run reaches the button's body with the same table.
ClickSearch ==
    /\ pc = "ready"
    /\ \E query \in Queries, outcome \in Outcomes :
          \E h \in {SearchButton(query, outcome)} :
              /\ user_query' = query
              /\ search_results' = h.results
              /\ prompt' = h.prompt
              /\ gemini_answer' = h.answer
              /\ shown' = <<"success", "query_box">> \o h.shown
              /\ api_calls' = h.calls
              /\ searched' = h.searched
              /\ last_outcome' = IF h.calls > 0 THEN outcome ELSE "none"
              /\ ever_searched' = (ever_searched \/ h.searched)
              /\ ever_called_api' = (ever_called_api \/ h.calls > 0)
    /\ pc' = "ready"
    /\ UNCHANGED <<secrets, CSV_FILES, fs, load_reports, combined_pricebook_df,
                   ever_loaded>>

\* any interaction with a page that stopped or loaded nothing reruns the script
Rerun ==
    /\ pc \in {"stopped", "no_data"}
    /\ pc' = "start"
    /\ shown' = <<>>
    /\ UNCHANGED <<secrets, CSV_FILES, fs, load_reports, combined_pricebook_df,
                   user_query, search_results, prompt, gemini_answer,
                   api_calls, searched, last_outcome, ever_loaded,
                   ever_searched, ever_called_api>>

Next == Configure \/ LoadData \/ ClickSearch \/ Rerun

Spec == Init /\ [][Next]_vars

---------------------------------------------------------------------------
(* get_gemini_answer on its own: any Match Set of up to MaxRows rows.      *)

\* a frame of n rows whose prices follow the k-th pattern
GeneratedFrame(n, k) ==
    [cols |-> <<"name", "price">>,
     rows |-> [i \in 1..n |-> [c \in {"name", "price"} |->
                  IF c = "name" THEN StrVal(<<"a">>)
                  ELSE IntVal((i * k) % 7)]]]

MatchSets == {EmptyDF} \cup {GeneratedFrame(n, k) : n \in 0..MaxRows, k \in 1..3}

InitGemini ==
    /\ secrets = {"GEMINI_API_KEY"}
    /\ CSV_FILES = <<>>
    /\ fs = [p \in PathNames |-> MissingFile]
    /\ pc = "summarize"
    /\ load_reports = <<>>
    /\ combined_pricebook_df = EmptyDF
    /\ user_query \in {<<"a">>, <<"1">>, <<"z">>}
    /\ search_results \in MatchSets
    /\ prompt = NoPrompt
    /\ gemini_answer = NoAnswer
    /\ shown = <<>>
    /\ api_calls = 0
    /\ searched = FALSE
    /\ last_outcome = "none"
    /\ ever_loaded = FALSE
    /\ ever_searched = FALSE
    /\ ever_called_api = FALSE

\* one call of get_gemini_answer(user_query, search_results)
Summarize ==
    /\ pc = "summarize"
    /\ \E outcome \in Outcomes :
          LET g == get_gemini_answer(user_query, search_results, outcome)
          IN  /\ prompt' = g.prompt
              /\ gemini_answer' = g.answer
              /\ api_calls' = g.calls
              /\ last_outcome' = outcome
              /\ shown' = IF g.st_error THEN <<"gemini_error">> ELSE <<>>
    /\ pc' = "summarized"
    /\ ever_called_api' = TRUE
    /\ UNCHANGED <<secrets, CSV_FILES, fs, load_reports, combined_pricebook_df,
                   user_query, search_results, searched, ever_loaded,
                   ever_searched>>

NextGemini == Summarize

SpecGemini == InitGemini /\ [][NextGemini]_vars

---------------------------------------------------------------------------
(* What the properties below are stated with: the sources as they are on   *)
(* disk, independent of how the loader walks them.                         *)

Loads(path) == fs[path].status = "ok"

RemoveAt(seq, i) == SubSeq(seq, 1, i - 1) \o SubSeq(seq, i + 1, Len(seq))

RECURSIVE Origins(_, _)
\* <<path, row number>> of every row of the first k sources that load
Origins(paths, k) ==
    IF k = 0 THEN <<>>
    ELSE Origins(paths, k - 1)
         \o (IF Loads(paths[k])
             THEN [r \in DOMAIN fs[paths[k]].rows |-> <<paths[k], r>>]
             ELSE <<>>)

RECURSIVE SumRows(_, _)
\* the sum of the row counts of the first k sources, all of which load
SumRows(paths, k) ==
    IF k = 0 THEN 0 ELSE SumRows(paths, k - 1) + Len(fs[paths[k]].rows)

\* the raw field of column c in row r of the file at path
RawField(path, r, c) == fs[path].rows[r][ColIndex(fs[path].cols, c)]

\* the file at path has no column c, or row r leaves it empty
MissingInSource(path, r, c) ==
    c \notin Range(fs[path].cols) \/ RawField(path, r, c) = <<>>

\* what the parser read for column c in row r of the file at path
Parsed(path, r, c) == read_csv(fs[path]).rows[r][c]

IsNumber(v) == v.t \in {"int", "float"}

\* the click's handler ran in the state (the page shows more than the box)
Clicked == pc = "ready" /\ Len(shown) > 2

\* the rows of the table with a column that contains q as plain text
LiteralMatches(df, q) ==
    SelectSeq(df.rows, LAMBDA row :
        \E c \in Range(df.cols) :
            LiteralContains(Lower(AsStr(row[c])), Lower(q)))

LoadDone == ever_loaded

---------------------------------------------------------------------------
(* C1.  For a query that is not blank, the Match Set is exactly the rows   *)
(* of the table, in table order, with a column whose lower-cased string    *)
(* value contains the lower-cased query as plain text, and the search      *)
(* ends normally whatever characters the query holds.                      *)
C1_SearchIsLiteralFilter ==
    (Clicked /\ ~IsBlank(user_query)) =>
        /\ searched
        /\ "exception" \notin Range(shown)
        /\ search_results.rows = LiteralMatches(combined_pricebook_df, user_query)

---------------------------------------------------------------------------
---------------------------------------------------------------------------
(* C3.  When exactly one entry of the source list is unreachable and every *)
(* other entry loads, load() returns the table that load() returns on the  *)
(* list without that entry, it reports exactly one warning, which names    *)
(* that source, and nothing else beyond what the shorter list reports, and *)
(* the run goes on to draw the page.                                       *)
C3_OneUnreachableSourceIsSkipped ==
    LoadDone =>
        \A i \in DOMAIN CSV_FILES :
            (/\ fs[CSV_FILES[i]].status = "missing"
             /\ \A j \in DOMAIN CSV_FILES \ {i} : Loads(CSV_FILES[j]))
            => LET rest == load_and_combine_data(RemoveAt(CSV_FILES, i))
                   warnings == {k \in DOMAIN load_reports :
                                   load_reports[k].kind = "warning"}
               IN  /\ combined_pricebook_df = rest.df
                   /\ Cardinality(warnings) = 1
                   /\ \A k \in warnings : load_reports[k].path = CSV_FILES[i]
                   /\ SelectSeq(load_reports, LAMBDA m : m.kind # "warning")
                          = rest.reports
                   /\ pc # "stopped"
                   /\ Len(CSV_FILES) > 1 => pc = "ready"

\* a list of three entries, the middle one unreachable, loaded and searchable
C3_Witness ==
    /\ LoadDone
    /\ pc = "ready"
    /\ Len(CSV_FILES) = 3
    /\ fs[CSV_FILES[2]].status = "missing"
    /\ Loads(CSV_FILES[1])
    /\ Loads(CSV_FILES[3])
    /\ Len(load_reports) = 1

---------------------------------------------------------------------------
(* C4.  When no source of the list loads (each is unreachable or           *)
(* malformed, or the list is empty), load() returns the empty table with   *)
(* the fatal "no data" report, the page says that nothing could be loaded, *)
(* and the session never accepts, searches or summarizes a query, so it    *)
(* never shows "no matches".                                               *)
C4_NothingLoadedIsFatal ==
    (LoadDone /\ \A i \in DOMAIN CSV_FILES : ~Loads(CSV_FILES[i])) =>
        /\ combined_pricebook_df = EmptyDF
        /\ \E k \in DOMAIN load_reports :
              load_reports[k] = Report("error", "no_data", "")
        /\ pc # "ready"
        /\ pc = "no_data" => shown = <<"could_not_load">>
        /\ ~ever_searched
        /\ ~ever_called_api
        /\ "no_matches" \notin Range(shown)
        /\ "query_box" \notin Range(shown)

\* a list with an unreachable and a malformed source, after the load
C4_Witness ==
    /\ LoadDone
    /\ pc = "no_data"
    /\ \E i \in DOMAIN CSV_FILES : fs[CSV_FILES[i]].status = "missing"
    /\ \E i \in DOMAIN CSV_FILES : fs[CSV_FILES[i]].status = "malformed"
    /\ Len(load_reports) = Len(CSV_FILES) + 1

---------------------------------------------------------------------------
(* C5.  The table's rows are the rows of the sources that load, source by  *)
(* source in list order and row by row in file order, a source listed      *)
(* twice giving its rows twice: row k of the table carries, in every       *)
(* column of its source, the value the parser read there (a missing field  *)
(* as the empty string, a number as a number of the same value); when      *)
(* every source loads, the row count is the sum of the sources' row counts.*)
C5_RowsAreSourcesConcatenated ==
    LoadDone =>
        LET origin == Origins(CSV_FILES, Len(CSV_FILES))
            df == combined_pricebook_df
        IN  /\ Len(df.rows) = Len(origin)
            /\ (\A i \in DOMAIN CSV_FILES : Loads(CSV_FILES[i]))
                  => Len(df.rows) = SumRows(CSV_FILES, Len(CSV_FILES))
            /\ \A k \in DOMAIN df.rows :
                  \A c \in Range(fs[origin[k][1]].cols) :
                      LET pv == Parsed(origin[k][1], origin[k][2], c)
                          cell == df.rows[k][c]
                      IN  CASE pv.t = "nan" -> cell = StrVal(<<>>)
                            [] IsNumber(pv) -> IsNumber(cell) /\ cell.n = pv.n
                            [] OTHER -> cell = pv

\* a source listed twice around a different one, all three loaded
C5_Witness ==
    /\ LoadDone
    /\ pc = "ready"
    /\ Len(CSV_FILES) = 3
    /\ CSV_FILES[1] = CSV_FILES[3]
    /\ CSV_FILES[1] # CSV_FILES[2]
    /\ fs[CSV_FILES[1]] = FileA
    /\ fs[CSV_FILES[2]] = FileD
    /\ Len(combined_pricebook_df.rows) = 5

---------------------------------------------------------------------------
(* C6.  On any loaded table, search with an empty or all-blank query       *)
(* returns the empty Match Set without scanning the table, and a click     *)
(* whose query reaches search blank leaves the Match Set empty.            *)
C6_BlankQueryGivesEmptyMatchSet ==
    LoadDone =>
        /\ \A q \in {qq \in Queries : IsBlank(qq)} :
              LET r == search_dataframe(combined_pricebook_df, q)
              IN  r.df = EmptyDF /\ ~r.scanned /\ ~r.raised
        /\ (Clicked /\ searched /\ IsBlank(user_query))
              => search_results = EmptyDF

\* a click with a two-blank query on a table whose cells hold a blank
C6_Witness ==
    /\ Clicked
    /\ searched
    /\ user_query = <<" ", " ">>
    /\ search_results = EmptyDF
    /\ \E k \in DOMAIN combined_pricebook_df.rows :
          \E c \in Range(combined_pricebook_df.cols) :
              LiteralContains(AsStr(combined_pricebook_df.rows[k][c]), <<" ">>)

---------------------------------------------------------------------------
(* C7.  A click with an empty or all-blank query is "no search performed": *)
(* the page asks for a query, no search runs, "no matches" is never shown  *)
(* and nothing is handed to the summarization collaborator.                *)
C7_BlankQueryIsNoSearch ==
    (Clicked /\ IsBlank(user_query)) =>
        /\ ~searched
        /\ "enter_query_warning" \in Range(shown)
        /\ "no_matches" \notin Range(shown)
        /\ prompt.kind = "none"
        /\ api_calls = 0

---------------------------------------------------------------------------
(* C8.  For a Match Set of n rows: if n > 10 the collaborator receives the *)
(* first 10 rows, in order, and the indicator "n - 10 more"; if            *)
(* 1 <= n <= 10 it receives all n rows and no indicator.                   *)
C8_RowsForwardedAreCapped ==
    pc = "summarized" =>
        LET n == Len(search_results.rows)
            rendered == to_markdown(search_results).lines
        IN  /\ n > 10 =>
                 /\ prompt.kind = "results"
                 /\ prompt.table.lines = SubSeq(rendered, 1, 10)
                 /\ prompt.more = <<n - 10>>
            /\ (1 <= n /\ n <= 10) =>
                 /\ prompt.kind = "results"
                 /\ prompt.table.lines = rendered
                 /\ prompt.more = <<>>

\* 15 rows: 10 rows and "5 more" are forwarded
C8_Witness ==
    /\ pc = "summarized"
    /\ Len(search_results.rows) = 15
    /\ Len(prompt.table.lines) = 10
    /\ prompt.more = <<5>>

---------------------------------------------------------------------------
(* C9.  When the call to the collaborator fails, the click's handler does  *)
(* not crash: the answer written is the fixed apology, exactly one call    *)
(* was made, no exception is shown, and the page accepts the next query.   *)
C9_CollaboratorFailureIsRecovered ==
    last_outcome = "error" =>
        /\ gemini_answer = Apology
        /\ api_calls = 1
        /\ "exception" \notin Range(shown)
        /\ (pc = "ready" =>
               /\ "answer" \in Range(shown)
               /\ "query_box" \in Range(shown))
        /\ pc = "ready"

\* a click whose search matched rows and whose call then failed
C9_Witness ==
    /\ Clicked
    /\ last_outcome = "error"
    /\ ~IsEmpty(search_results)
    /\ gemini_answer = Apology

---------------------------------------------------------------------------
(* C10.  With the credential absent, the run shows the configuration error *)
(* and stops before loading: the loader, the search and the collaborator   *)
(* never run in the session.                                               *)
C10_NoCredentialNoService ==
    "GEMINI_API_KEY" \notin secrets =>
        /\ pc \in {"start", "stopped"}
        /\ pc = "stopped" => shown = <<"config_error">>
        /\ ~ever_loaded
        /\ ~ever_searched
        /\ ~ever_called_api
        /\ combined_pricebook_df = EmptyDF

\* the run stopped on the configuration error, with sources that would load
C10_Witness ==
    /\ "GEMINI_API_KEY" \notin secrets
    /\ pc = "stopped"
    /\ shown = <<"config_error">>
    /\ CSV_FILES # <<>>
    /\ \A i \in DOMAIN CSV_FILES : Loads(CSV_FILES[i])
=============================================================================
